---- MODULE Spec2Model ----
(***************************************************************************)
(* Model of the utilities formatDate, base64ToArrayBuffer, base64ToFile    *)
(* and getFileType, and of the QRCodePage component.                        *)
(*                                                                         *)
(* A JavaScript string is a sequence of one-character strings.  A          *)
(* JavaScript value is a record [type, val]: type is the typeof class and  *)
(* val the characters of a string (or the name of an object).              *)
(***************************************************************************)
EXTENDS Integers, Sequences, FiniteSets, TLC

VARIABLES
    \* getFileType
    filename, fileType, ftPc,
    \* formatDate
    inputDate, dateResult, fdPc,
    \* base64ToArrayBuffer / base64ToFile
    payload, base64, fname, bufferResult, fileResult,
    \* QRCodePage
    courses, operating, scanResults, disabled, loadingShown, errorLog,
    \* initPc, qrPc: where initCourses and handleGetQRCode stand; qrArg,
    \* qrSettled: the invocation's argument and outcome; lastCall: the last
    \* step taken (a history variable, not state of the component)
    initPc, qrPc, qrArg, qrSettled, lastCall

ftVars == <<filename, fileType, ftPc>>
fdVars == <<inputDate, dateResult, fdPc>>
b64Vars == <<payload, base64, fname, bufferResult, fileResult>>
pageVars == <<courses, operating, scanResults, disabled, loadingShown,
              errorLog, initPc, qrPc, qrArg, qrSettled, lastCall>>
vars == <<ftVars, fdVars, b64Vars, pageVars>>

----------------------------------------------------------------------------
(* Bounds *)

MaxPieces == 3
MaxBytes == 3
MaxRawLen == 3
MaxCourses == 2
MaxResults == 2
MaxErrors == 2

----------------------------------------------------------------------------
(* JavaScript values and strings *)

Str(s) == [type |-> "string", val |-> s]
Undefined == [type |-> "undefined", val |-> <<>>]
FunctionValue(name) == [type |-> "function", val |-> name]
ObjectValue(name) == [type |-> "object", val |-> name]

Truthy(v) ==
    CASE v.type = "undefined" -> FALSE
      [] v.type = "string" -> v.val # <<>>
      [] OTHER -> TRUE

UpperChars == <<"A","B","C","D","E","F","G","H","I","J","K","L","M",
                "N","O","P","Q","R","S","T","U","V","W","X","Y","Z">>
LowerChars == <<"a","b","c","d","e","f","g","h","i","j","k","l","m",
                "n","o","p","q","r","s","t","u","v","w","x","y","z">>

ToLowerChar(c) ==
    IF \E i \in 1..26 : UpperChars[i] = c
    THEN LowerChars[CHOOSE i \in 1..26 : UpperChars[i] = c]
    ELSE c

toLowerCase(s) == [i \in 1..Len(s) |-> ToLowerChar(s[i])]

RECURSIVE Flatten(_)
Flatten(ss) == IF ss = <<>> THEN <<>> ELSE Head(ss) \o Flatten(Tail(ss))

\* s.split(sep): the segments of s between the occurrences of sep; never empty
RECURSIVE SplitFrom(_, _, _)
SplitFrom(s, sep, cur) ==
    IF s = <<>> THEN <<cur>>
    ELSE IF Head(s) = sep THEN <<cur>> \o SplitFrom(Tail(s), sep, <<>>)
    ELSE SplitFrom(Tail(s), sep, Append(cur, Head(s)))

split(s, sep) == SplitFrom(s, sep, <<>>)

\* array.pop(): the last element, undefined for an empty array
pop(arr) == IF arr = <<>> THEN Undefined ELSE Str(arr[Len(arr)])

----------------------------------------------------------------------------
(* getFileType *)

ExtensionKeys ==
    { <<"b","m","p">>, <<"c","s","v">>, <<"d","o","c">>, <<"d","o","c","x">>,
      <<"g","i","f">>, <<"j","p","g">>, <<"j","p","e","g">>, <<"p","p","t","x">>,
      <<"p","d","f">>, <<"p","n","g">>, <<"t","i","f","f">>, <<"m","p","4">> }

fileExtensions(k) ==
    CASE k = <<"b","m","p">> -> <<"i","m","a","g","e","/","b","m","p">>
      [] k = <<"c","s","v">> -> <<"t","e","x","t","/","c","s","v">>
      [] k = <<"d","o","c">> -> <<"d","o","c">>
      [] k = <<"d","o","c","x">> -> <<"d","o","c">>
      [] k = <<"g","i","f">> -> <<"i","m","a","g","e","/","g","i","f">>
      [] k = <<"j","p","g">> -> <<"i","m","a","g","e","/","j","p","g">>
      [] k = <<"j","p","e","g">> -> <<"i","m","a","g","e","/","j","p","e","g">>
      [] k = <<"p","p","t","x">> -> <<"p","p","t">>
      [] k = <<"p","d","f">> -> <<"a","p","p","l","i","c","a","t","i","o","n","/","p","d","f">>
      [] k = <<"p","n","g">> -> <<"i","m","a","g","e","/","p","n","g">>
      [] k = <<"t","i","f","f">> -> <<"i","m","a","g","e","/","t","i","f","f">>
      [] k = <<"m","p","4">> -> <<"v","i","d","e","o","/","m","p","4">>

\* fileExtensions is an object literal: a key it does not own is looked up
\* on Object.prototype
ObjectPrototypeFunctions ==
    { <<"c","o","n","s","t","r","u","c","t","o","r">>,
      <<"t","o","S","t","r","i","n","g">>,
      <<"v","a","l","u","e","O","f">>,
      <<"h","a","s","O","w","n","P","r","o","p","e","r","t","y">> }

ProtoKey == <<"_","_","p","r","o","t","o","_","_">>

\* fileExtensions[key]
GetProperty(key) ==
    IF key \in ExtensionKeys THEN Str(fileExtensions(key))
    ELSE IF key \in ObjectPrototypeFunctions THEN FunctionValue(key)
    ELSE IF key = ProtoKey THEN ObjectValue(ProtoKey)
    ELSE Undefined

\* filename.split('.').pop()?.toLowerCase()
Extension(name) ==
    LET last == pop(split(name, "."))
    IN  IF last.type = "undefined" THEN Undefined ELSE Str(toLowerCase(last.val))

getFileType(name) ==
    LET extension == Extension(name)
    IN  IF Truthy(extension) /\ Truthy(GetProperty(extension.val))
        THEN GetProperty(extension.val)
        ELSE IF extension.type = "undefined" THEN Str(<<>>) ELSE extension

\* the filenames tried: up to MaxPieces pieces written one after the other
Pieces ==
    { <<".">>,
      <<"R","E","A","D","M","E">>,
      <<"p","h","o","t","o">>,
      <<"J","P","G">>,
      <<"d","o","c","x">>,
      <<"t","a","r">>,
      <<"g","z">>,
      <<"p","d","f">>,
      <<"c","o","n","s","t","r","u","c","t","o","r">>,
      <<"t","o","S","t","r","i","n","g">>,
      ProtoKey }

RECURSIVE PieceSeqs(_)
PieceSeqs(n) ==
    IF n = 0 THEN { <<>> }
    ELSE LET shorter == PieceSeqs(n - 1)
         IN  shorter \cup { Append(ps, p) : ps \in shorter, p \in Pieces }

Filenames == { Flatten(ps) : ps \in PieceSeqs(MaxPieces) }

NotCalled == [type |-> "notcalled", val |-> <<>>]

FtInit ==
    /\ filename \in Filenames
    /\ fileType = NotCalled
    /\ ftPc = "ready"

GetFileType ==
    /\ ftPc = "ready"
    /\ fileType' = getFileType(filename)
    /\ ftPc' = "done"
    /\ UNCHANGED filename

----------------------------------------------------------------------------
(* formatDate *)

DigitChars == <<"0","1","2","3","4","5","6","7","8","9">>

IsDigit(c) == \E i \in 1..10 : DigitChars[i] = c
DigitVal(c) == (CHOOSE i \in 1..10 : DigitChars[i] = c) - 1

RECURSIVE NatToString(_)
NatToString(n) ==
    IF n < 10 THEN <<DigitChars[n + 1]>>
    ELSE NatToString(n \div 10) \o <<DigitChars[(n % 10) + 1]>>

\* a JavaScript number: an integer or NaN
Num(n) == [nan |-> FALSE, n |-> n]
NaN == [nan |-> TRUE, n |-> 0]

\* Number.prototype.toString, and the conversion a template literal applies
NumberToString(v) ==
    IF v.nan THEN <<"N","a","N">>
    ELSE IF v.n < 0 THEN <<"-">> \o NatToString(0 - v.n)
    ELSE NatToString(v.n)

RECURSIVE padStart(_, _, _)
padStart(s, targetLength, fill) ==
    IF Len(s) >= targetLength THEN s
    ELSE padStart(<<fill>> \o s, targetLength, fill)

RECURSIVE DigitsToNat(_)
DigitsToNat(s) ==
    IF s = <<>> THEN 0
    ELSE DigitsToNat(SubSeq(s, 1, Len(s) - 1)) * 10 + DigitVal(s[Len(s)])

AllDigits(s) == \A i \in 1..Len(s) : IsDigit(s[i])

IsLeapYear(y) == (y % 4 = 0 /\ y % 100 # 0) \/ y % 400 = 0

DaysInMonth(y, m) ==
    IF m = 2 THEN (IF IsLeapYear(y) THEN 29 ELSE 28)
    ELSE IF m \in {4, 6, 9, 11} THEN 30 ELSE 31

InvalidDate == [valid |-> FALSE, year |-> 0, month |-> 0, date |-> 0,
                hours |-> 0, minutes |-> 0]

\* the part of a date-time string after the year: -MM-DDTHH:mm:ss, with no
\* offset, so that the fields are local time
ParseAfterYear(sign, year, r) ==
    IF /\ Len(r) = 15
       /\ r[1] = "-" /\ r[4] = "-" /\ r[7] = "T" /\ r[10] = ":" /\ r[13] = ":"
       /\ AllDigits(SubSeq(r, 2, 3)) /\ AllDigits(SubSeq(r, 5, 6))
       /\ AllDigits(SubSeq(r, 8, 9)) /\ AllDigits(SubSeq(r, 11, 12))
       /\ AllDigits(SubSeq(r, 14, 15))
    THEN LET mo == DigitsToNat(SubSeq(r, 2, 3))
             d  == DigitsToNat(SubSeq(r, 5, 6))
             h  == DigitsToNat(SubSeq(r, 8, 9))
             mi == DigitsToNat(SubSeq(r, 11, 12))
             s  == DigitsToNat(SubSeq(r, 14, 15))
         IN  IF /\ mo \in 1..12
                /\ d >= 1 /\ d <= DaysInMonth(year, mo)
                /\ h \in 0..23 /\ mi \in 0..59 /\ s \in 0..59
             THEN [valid |-> TRUE, year |-> sign * year, month |-> mo - 1,
                   date |-> d, hours |-> h, minutes |-> mi]
             ELSE InvalidDate
    ELSE InvalidDate

\* new Date(string): the date-time string format YYYY-MM-DDTHH:mm:ss and
\* its expanded years (+YYYYYY, -YYYYYY); the other strings of the model are
\* ones no parser accepts
NewDate(s) ==
    IF Len(s) = 19 /\ AllDigits(SubSeq(s, 1, 4))
    THEN ParseAfterYear(1, DigitsToNat(SubSeq(s, 1, 4)), SubSeq(s, 5, 19))
    ELSE IF /\ Len(s) = 22 /\ s[1] \in {"+", "-"} /\ AllDigits(SubSeq(s, 2, 7))
            /\ ~(s[1] = "-" /\ DigitsToNat(SubSeq(s, 2, 7)) = 0)
    THEN ParseAfterYear(IF s[1] = "-" THEN 0 - 1 ELSE 1,
                        DigitsToNat(SubSeq(s, 2, 7)), SubSeq(s, 8, 22))
    ELSE InvalidDate

getFullYear(date) == IF date.valid THEN Num(date.year) ELSE NaN
getMonth(date) == IF date.valid THEN Num(date.month) ELSE NaN
getDate(date) == IF date.valid THEN Num(date.date) ELSE NaN
getHours(date) == IF date.valid THEN Num(date.hours) ELSE NaN
getMinutes(date) == IF date.valid THEN Num(date.minutes) ELSE NaN

\* NaN + 1 is NaN
PlusOne(v) == IF v.nan THEN NaN ELSE Num(v.n + 1)

formatDate(input) ==
    IF ~Truthy(input) THEN Str(<<>>)
    ELSE LET date == NewDate(input.val)
             year == getFullYear(date)
             month == padStart(NumberToString(PlusOne(getMonth(date))), 2, "0")
             day == padStart(NumberToString(getDate(date)), 2, "0")
             hours == padStart(NumberToString(getHours(date)), 2, "0")
             minutes == padStart(NumberToString(getMinutes(date)), 2, "0")
         IN  Str(NumberToString(year) \o <<"/">> \o month \o <<"/">> \o day
                 \o <<" ">> \o hours \o <<":">> \o minutes)

\* the date strings tried: written from these fields, in and out of range
Years == {5, 999, 1000, 2023, 9999, 12345}
Months == {1, 12, 13}
Days == {5, 28, 32}
Hours == {0, 9, 23, 25}
Minutes == {3, 59, 60}

IsoString(y, mo, d, h, mi) ==
    (IF y <= 9999 THEN padStart(NatToString(y), 4, "0")
     ELSE <<"+">> \o padStart(NatToString(y), 6, "0"))
    \o <<"-">> \o padStart(NatToString(mo), 2, "0")
    \o <<"-">> \o padStart(NatToString(d), 2, "0")
    \o <<"T">> \o padStart(NatToString(h), 2, "0")
    \o <<":">> \o padStart(NatToString(mi), 2, "0")
    \o <<":", "0", "0">>

ValidDateStrings ==
    { IsoString(y, mo, d, h, mi) :
        y \in Years, mo \in Months \cap 1..12, d \in Days \cap 1..28,
        h \in Hours \cap 0..23, mi \in Minutes \cap 0..59 }

IsoDateStrings ==
    { IsoString(y, mo, d, h, mi) :
        y \in Years, mo \in Months, d \in Days, h \in Hours, mi \in Minutes }

GarbageDateStrings ==
    { <<"a","b","c">>, <<"n","o","t"," ","a"," ","d","a","t","e">>,
      <<"2","0","2","3","-","x","x">> }

DateInputs ==
    {Undefined, Str(<<>>)} \cup { Str(s) : s \in IsoDateStrings \cup GarbageDateStrings }

FdInit ==
    /\ inputDate \in DateInputs
    /\ dateResult = NotCalled
    /\ fdPc = "ready"

FormatDate ==
    /\ fdPc = "ready"
    /\ dateResult' = formatDate(inputDate)
    /\ fdPc' = "done"
    /\ UNCHANGED inputDate

----------------------------------------------------------------------------
(* base64ToArrayBuffer and base64ToFile *)

Base64Chars ==
    <<"A","B","C","D","E","F","G","H","I","J","K","L","M",
      "N","O","P","Q","R","S","T","U","V","W","X","Y","Z",
      "a","b","c","d","e","f","g","h","i","j","k","l","m",
      "n","o","p","q","r","s","t","u","v","w","x","y","z",
      "0","1","2","3","4","5","6","7","8","9","+","/">>

IsBase64Char(c) == \E i \in 1..64 : Base64Chars[i] = c
Base64Val(c) == (CHOOSE i \in 1..64 : Base64Chars[i] = c) - 1

AsciiWhitespace == {" ", "\t", "\n", "\f", "\r"}

IsNotWhitespace(c) == c \notin AsciiWhitespace

\* the characters of the payload, six bits each: three bytes from four
\* characters, and at the end one byte from two characters (the last four
\* bits dropped) or two bytes from three (the last two bits dropped)
RECURSIVE DecodeSextets(_)
DecodeSextets(s) ==
    IF Len(s) >= 4
    THEN LET n == Base64Val(s[1]) * 262144 + Base64Val(s[2]) * 4096
                  + Base64Val(s[3]) * 64 + Base64Val(s[4])
         IN  <<n \div 65536, (n \div 256) % 256, n % 256>>
             \o DecodeSextets(SubSeq(s, 5, Len(s)))
    ELSE IF Len(s) = 3
    THEN LET n == (Base64Val(s[1]) * 4096 + Base64Val(s[2]) * 64
                   + Base64Val(s[3])) \div 4
         IN  <<n \div 256, n % 256>>
    ELSE IF Len(s) = 2
    THEN <<(Base64Val(s[1]) * 64 + Base64Val(s[2])) \div 16>>
    ELSE <<>>

\* up to two "=" dropped from the end of a string whose length is a
\* multiple of four
StripPadding(s) ==
    IF Len(s) % 4 = 0 /\ Len(s) > 0 /\ s[Len(s)] = "="
    THEN IF s[Len(s) - 1] = "="
         THEN SubSeq(s, 1, Len(s) - 2)
         ELSE SubSeq(s, 1, Len(s) - 1)
    ELSE s

\* window.atob: ok and the binary string (one code unit 0..255 per byte),
\* or not ok: an InvalidCharacterError is thrown
atob(s) ==
    LET data == StripPadding(SelectSeq(s, IsNotWhitespace))
    IN  IF Len(data) % 4 = 1 \/ \E i \in 1..Len(data) : ~IsBase64Char(data[i])
        THEN [ok |-> FALSE, val |-> <<>>]
        ELSE [ok |-> TRUE, val |-> DecodeSextets(data)]

Return(bytes, name) == [kind |-> "return", bytes |-> bytes, name |-> name]
Throw == [kind |-> "throw", bytes |-> <<>>, name |-> <<>>]
NoResult == [kind |-> "notcalled", bytes |-> <<>>, name |-> <<>>]

\* a variant of FillBytes whose loop stops one short (i < length - 1)
RECURSIVE FillBytesMissingLast(_, _, _, _)
FillBytesMissingLast(binaryString, length, bytes, i) ==
    IF i < length - 1
    THEN FillBytesMissingLast(binaryString, length,
                   [bytes EXCEPT ![i + 1] = binaryString[i + 1] % 256], i + 1)
    ELSE bytes

\* for (let i = 0; i < length; i++) bytes[i] = binaryString.charCodeAt(i);
\* a Uint8Array element keeps the low eight bits
RECURSIVE FillBytes(_, _, _, _)
FillBytes(binaryString, length, bytes, i) ==
    IF i < length
    THEN FillBytes(binaryString, length,
                   [bytes EXCEPT ![i + 1] = binaryString[i + 1] % 256], i + 1)
    ELSE bytes

\* a variant of base64ToArrayBuffer that catches the decoder's error and
\* returns an empty buffer
base64ToArrayBufferSwallowing(b64) ==
    LET decoded == atob(b64)
    IN  IF ~decoded.ok THEN Return(<<>>, <<>>)
        ELSE LET binaryString == decoded.val
                 length == Len(binaryString)
                 bytes == [i \in 1..length |-> 0]
             IN  Return(FillBytes(binaryString, length, bytes, 0), <<>>)

\* atob's error is not caught: it leaves the function
base64ToArrayBuffer(b64) ==
    LET decoded == atob(b64)
    IN  IF ~decoded.ok THEN Throw
        ELSE LET binaryString == decoded.val
                 length == Len(binaryString)
                 bytes == [i \in 1..length |-> 0]
             IN  Return(FillBytes(binaryString, length, bytes, 0), <<>>)

\* the bytes a Blob holds for a string part: its UTF-8 encoding (the code
\* units of a binary string are below 256: one or two bytes each)
RECURSIVE UTF8Encode(_)
UTF8Encode(s) ==
    IF s = <<>> THEN <<>>
    ELSE (IF Head(s) < 128 THEN <<Head(s)>>
          ELSE <<192 + (Head(s) \div 64), 128 + (Head(s) % 64)>>)
         \o UTF8Encode(Tail(s))

base64ToFile(b64, name) ==
    LET decoded == atob(b64)
    IN  IF ~decoded.ok THEN Throw
        ELSE LET binaryString == decoded.val
                 blob == UTF8Encode(binaryString)
             IN  Return(blob, name)

\* the reference encoder, for building payloads
RECURSIVE EncodeBase64(_)
EncodeBase64(b) ==
    IF Len(b) >= 3
    THEN LET n == b[1] * 65536 + b[2] * 256 + b[3]
         IN  <<Base64Chars[(n \div 262144) + 1], Base64Chars[((n \div 4096) % 64) + 1],
               Base64Chars[((n \div 64) % 64) + 1], Base64Chars[(n % 64) + 1]>>
             \o EncodeBase64(SubSeq(b, 4, Len(b)))
    ELSE IF Len(b) = 2
    THEN LET n == (b[1] * 256 + b[2]) * 4
         IN  <<Base64Chars[(n \div 4096) + 1], Base64Chars[((n \div 64) % 64) + 1],
               Base64Chars[(n % 64) + 1], "=">>
    ELSE IF Len(b) = 1
    THEN LET n == b[1] * 16
         IN  <<Base64Chars[(n \div 64) + 1], Base64Chars[(n % 64) + 1], "=", "=">>
    ELSE <<>>

ByteValues == {0, 65, 127, 128, 255}
RawChars == {"Q", "g", "=", "!", " "}

RECURSIVE SeqsUpTo(_, _)
SeqsUpTo(S, n) ==
    IF n = 0 THEN { <<>> }
    ELSE LET shorter == SeqsUpTo(S, n - 1)
         IN  shorter \cup { Append(s, x) : s \in shorter, x \in S }

ByteSeqs == SeqsUpTo(ByteValues, MaxBytes)

NotValidExample ==
    <<"n","o","t","-","v","a","l","i","d","-","b","a","s","e","6","4","!","@","#">>

RawPayloads == SeqsUpTo(RawChars, MaxRawLen) \cup {NotValidExample}

FileNames == { <<>>, <<"a",".","p","n","g">> }

\* payload: the bytes a payload was encoded from, or raw text
B64Init ==
    /\ \/ \E b \in ByteSeqs :
            /\ payload = [encoded |-> TRUE, bytes |-> b]
            /\ base64 = EncodeBase64(b)
       \/ \E s \in RawPayloads :
            /\ payload = [encoded |-> FALSE, bytes |-> <<>>]
            /\ base64 = s
    /\ fname \in FileNames
    /\ bufferResult = NoResult
    /\ fileResult = NoResult

Base64ToArrayBuffer ==
    /\ bufferResult.kind = "notcalled"
    /\ bufferResult' = base64ToArrayBuffer(base64)
    /\ UNCHANGED <<payload, base64, fname, fileResult>>

Base64ToFile ==
    /\ fileResult.kind = "notcalled"
    /\ fileResult' = base64ToFile(base64, fname)
    /\ UNCHANGED <<payload, base64, fname, bufferResult>>

----------------------------------------------------------------------------
(* QRCodePage *)

CourseIds == {1, 2, 3}
Courses == { [id |-> i] : i \in CourseIds }
CourseLists == SeqsUpTo(Courses, MaxCourses)

Files == {"f1", "f2"}
ScanResultLists == SeqsUpTo(Files, MaxResults)

BackendErrors == {"e1"}

NoSettled == [value |-> <<>>, error |-> ""]

\* courses.find(course => course.id === courseId)
FindCourse(list, courseId) == \E i \in 1..Len(list) : list[i].id = courseId

\* the state after the first render and its effects: initCourses has invoked
\* list_courses and awaits it; operating is false, so no loading message
PageInit ==
    /\ courses = <<>>
    /\ operating = FALSE
    /\ scanResults = <<>>
    /\ disabled = FALSE
    /\ loadingShown = FALSE
    /\ errorLog = <<>>
    /\ initPc = "invoked"
    /\ qrPc = "idle"
    /\ qrArg = 0
    /\ qrSettled = NoSettled
    /\ lastCall = [op |-> "mount", arg |-> 0]

\* a render after a state change: the selector's disabled prop and the
\* effect on [operating], which opens or destroys the loading message
Render ==
    /\ disabled' = operating'
    /\ loadingShown' = operating'

\* initCourses once list_courses resolves
InitCoursesResolved(list) ==
    /\ initPc = "invoked"
    /\ courses' = list
    /\ initPc' = "done"
    /\ lastCall' = [op |-> "initCourses", arg |-> 0]
    /\ UNCHANGED <<operating, scanResults, errorLog, qrPc, qrArg, qrSettled>>
    /\ Render

\* initCourses once list_courses rejects
InitCoursesRejected(e) ==
    /\ initPc = "invoked"
    /\ errorLog' = Append(errorLog, [prefix |-> "", e |-> e])
    /\ initPc' = "done"
    /\ lastCall' = [op |-> "initCourses", arg |-> 0]
    /\ UNCHANGED <<courses, operating, scanResults, qrPc, qrArg, qrSettled>>
    /\ Render

\* handleCourseSelect, and handleGetQRCode up to its await; the selector
\* reports a change only while it is not disabled
HandleCourseSelect(courseId) ==
    /\ ~disabled
    /\ lastCall' = [op |-> "handleCourseSelect", arg |-> courseId]
    /\ IF FindCourse(courses, courseId)
       THEN /\ operating' = TRUE
            /\ qrPc' = "invoked"
            /\ qrArg' = courseId
            /\ qrSettled' = NoSettled
            /\ UNCHANGED <<courses, scanResults, errorLog, initPc>>
            /\ Render
       ELSE UNCHANGED <<courses, operating, scanResults, disabled, loadingShown,
                        errorLog, initPc, qrPc, qrArg, qrSettled>>

\* the backend settles filter_course_qrcode_images
BackendResolve(results) ==
    /\ qrPc = "invoked"
    /\ qrPc' = "resolved"
    /\ qrSettled' = [value |-> results, error |-> ""]
    /\ lastCall' = [op |-> "backend", arg |-> qrArg]
    /\ UNCHANGED <<courses, operating, scanResults, disabled, loadingShown,
                   errorLog, initPc, qrArg>>

BackendReject(e) ==
    /\ qrPc = "invoked"
    /\ Len(errorLog) < MaxErrors
    /\ qrPc' = "rejected"
    /\ qrSettled' = [value |-> <<>>, error |-> e]
    /\ lastCall' = [op |-> "backend", arg |-> qrArg]
    /\ UNCHANGED <<courses, operating, scanResults, disabled, loadingShown,
                   errorLog, initPc, qrArg>>

\* handleGetQRCode after the await resolved
GetQRCodeResolved ==
    /\ qrPc = "resolved"
    /\ scanResults' = qrSettled.value
    /\ operating' = FALSE
    /\ qrPc' = "idle"
    /\ lastCall' = [op |-> "handleGetQRCode.then", arg |-> qrArg]
    /\ UNCHANGED <<courses, errorLog, initPc, qrArg, qrSettled>>
    /\ Render

\* a variant of GetQRCodeRejected with setOperating(false) inside the try,
\* so that a rejection skips it
GetQRCodeRejectedKeepsOperating ==
    /\ qrPc = "rejected"
    /\ errorLog' = Append(errorLog, [prefix |-> "ReadError", e |-> qrSettled.error])
    /\ qrPc' = "idle"
    /\ lastCall' = [op |-> "handleGetQRCode.catch", arg |-> qrArg]
    /\ UNCHANGED <<courses, scanResults, operating, initPc, qrArg, qrSettled>>
    /\ Render

\* a variant of GetQRCodeRejected that also calls setScanResults([])
GetQRCodeRejectedClearsResults ==
    /\ qrPc = "rejected"
    /\ errorLog' = Append(errorLog, [prefix |-> "ReadError", e |-> qrSettled.error])
    /\ scanResults' = <<>>
    /\ operating' = FALSE
    /\ qrPc' = "idle"
    /\ lastCall' = [op |-> "handleGetQRCode.catch", arg |-> qrArg]
    /\ UNCHANGED <<courses, initPc, qrArg, qrSettled>>
    /\ Render

\* handleGetQRCode after the await rejected: the catch reports the error,
\* then setOperating(false)
GetQRCodeRejected ==
    /\ qrPc = "rejected"
    /\ errorLog' = Append(errorLog, [prefix |-> "ReadError", e |-> qrSettled.error])
    /\ operating' = FALSE
    /\ qrPc' = "idle"
    /\ lastCall' = [op |-> "handleGetQRCode.catch", arg |-> qrArg]
    /\ UNCHANGED <<courses, scanResults, initPc, qrArg, qrSettled>>
    /\ Render

SelectableIds == CourseIds \cup {4}

----------------------------------------------------------------------------
(* Specifications *)

FtOff == filename = <<>> /\ fileType = NotCalled /\ ftPc = "off"
FdOff == inputDate = Undefined /\ dateResult = NotCalled /\ fdPc = "off"
B64Off ==
    /\ payload = [encoded |-> FALSE, bytes |-> <<>>]
    /\ base64 = <<>>
    /\ fname = <<>>
    /\ bufferResult = NoResult
    /\ fileResult = NoResult

Init == PageInit /\ FtOff /\ FdOff /\ B64Off

Next ==
    \/ \E list \in CourseLists : InitCoursesResolved(list) /\ UNCHANGED <<ftVars, fdVars, b64Vars>>
    \/ \E e \in BackendErrors : InitCoursesRejected(e) /\ UNCHANGED <<ftVars, fdVars, b64Vars>>
    \/ \E courseId \in SelectableIds : HandleCourseSelect(courseId) /\ UNCHANGED <<ftVars, fdVars, b64Vars>>
    \/ \E results \in ScanResultLists : BackendResolve(results) /\ UNCHANGED <<ftVars, fdVars, b64Vars>>
    \/ \E e \in BackendErrors : BackendReject(e) /\ UNCHANGED <<ftVars, fdVars, b64Vars>>
    \/ GetQRCodeResolved /\ UNCHANGED <<ftVars, fdVars, b64Vars>>
    \/ GetQRCodeRejected /\ UNCHANGED <<ftVars, fdVars, b64Vars>>

Spec == Init /\ [][Next]_vars

\* the continuation of a settled await is a queued microtask: it runs
LiveSpec ==
    /\ Init
    /\ [][Next]_vars
    /\ WF_vars(GetQRCodeResolved /\ UNCHANGED <<ftVars, fdVars, b64Vars>>)
    /\ WF_vars(GetQRCodeRejected /\ UNCHANGED <<ftVars, fdVars, b64Vars>>)

NextFileType == GetFileType /\ UNCHANGED <<fdVars, b64Vars, pageVars>>

InitFileType == FtInit /\ FdOff /\ B64Off /\ PageInit

SpecFileType == InitFileType /\ [][NextFileType]_vars

NextFormatDate == FormatDate /\ UNCHANGED <<ftVars, b64Vars, pageVars>>

InitFormatDate == FdInit /\ FtOff /\ B64Off /\ PageInit

SpecFormatDate == InitFormatDate /\ [][NextFormatDate]_vars

NextBase64 ==
    \/ Base64ToArrayBuffer /\ UNCHANGED <<ftVars, fdVars, pageVars>>
    \/ Base64ToFile /\ UNCHANGED <<ftVars, fdVars, pageVars>>

InitBase64 == B64Init /\ FtOff /\ FdOff /\ PageInit

SpecBase64 == InitBase64 /\ [][NextBase64]_vars

----------------------------------------------------------------------------
(* Properties *)

HasDot(s) == \E i \in 1..Len(s) : s[i] = "."

\* the text after the last "." of a name that has one
AfterLastDot(s) ==
    LET k == CHOOSE i \in 1..Len(s) :
                 s[i] = "." /\ \A j \in (i + 1)..Len(s) : s[j] # "."
    IN  SubSeq(s, k + 1, Len(s))

\* C1: a filename with no "." is classified as the empty string.
C1_NoDotGivesEmpty ==
    (ftPc = "done" /\ ~HasDot(filename)) => fileType = Str(<<>>)

\* C4: getFileType returns a string for every filename.
C4_AlwaysString ==
    ftPc = "done" => fileType.type = "string"

\* C5: for a filename with a ".", the result is the label of the lowercased
\* text after the last "." when that text is a key of the table, and that
\* lowercased text itself otherwise.
C5_LastSegmentDecides ==
    (ftPc = "done" /\ HasDot(filename)) =>
        LET ext == toLowerCase(AfterLastDot(filename))
        IN  fileType = IF ext \in ExtensionKeys
                       THEN Str(fileExtensions(ext))
                       ELSE Str(ext)

\* C3: formatDate of an empty input, or of one that is not a valid date,
\* is the empty string.
C3_InvalidGivesEmpty ==
    (fdPc = "done" /\ (~Truthy(inputDate) \/ inputDate.val \notin ValidDateStrings))
        => dateResult = Str(<<>>)

IsDisplayDate(r) ==
    /\ Len(r) = 16
    /\ AllDigits(SubSeq(r, 1, 4)) /\ r[5] = "/"
    /\ AllDigits(SubSeq(r, 6, 7)) /\ r[8] = "/"
    /\ AllDigits(SubSeq(r, 9, 10)) /\ r[11] = " "
    /\ AllDigits(SubSeq(r, 12, 13)) /\ r[14] = ":"
    /\ AllDigits(SubSeq(r, 15, 16))

\* C6: formatDate of a valid date string has the shape YYYY/MM/DD HH:mm,
\* whatever the year.
C6_DisplayShape ==
    (fdPc = "done" /\ Truthy(inputDate) /\ inputDate.val \in ValidDateStrings)
        => /\ dateResult.type = "string"
           /\ IsDisplayDate(dateResult.val)

\* C2: the file base64ToFile returns has as many bytes as the buffer
\* base64ToArrayBuffer returns for the same payload.
C2_FileLengthIsDecodedLength ==
    (fileResult.kind = "return" /\ bufferResult.kind = "return")
        => Len(fileResult.bytes) = Len(bufferResult.bytes)

\* C7: base64ToArrayBuffer of the base64 encoding of a byte sequence returns
\* exactly that byte sequence.
C7_RoundTrip ==
    (payload.encoded /\ bufferResult.kind # "notcalled")
        => bufferResult = Return(payload.bytes, <<>>)

C7_Witness ==
    /\ payload.encoded
    /\ payload.bytes = <<128, 0, 255>>
    /\ bufferResult.kind = "return"

\* C8: on a payload the decoder rejects, base64ToArrayBuffer and
\* base64ToFile throw: neither returns a buffer or a file.
C8_DecodeErrorPropagates ==
    ~atob(base64).ok =>
        /\ bufferResult.kind \in {"notcalled", "throw"}
        /\ fileResult.kind \in {"notcalled", "throw"}

C8_Witness ==
    /\ base64 = NotValidExample
    /\ bufferResult = Throw
    /\ fileResult = Throw

\* C9: operating is true from the call of handleGetQRCode until its
\* invocation has settled and the handler has resumed; once the invocation
\* has settled, resolved or rejected, operating becomes false again; the
\* selector is disabled exactly while operating is true.
C9_OperatingBracketsScan ==
    /\ [](qrPc # "idle" => operating)
    /\ [](disabled = operating)
    /\ (qrPc \in {"resolved", "rejected"}) ~> (~operating)

C9_Witness ==
    /\ lastCall.op = "handleGetQRCode.catch"
    /\ qrPc = "idle"
    /\ ~operating
    /\ ~disabled

PageStateUnchanged ==
    UNCHANGED <<courses, operating, scanResults, disabled, loadingShown,
                errorLog, initPc, qrPc, qrArg, qrSettled>>

\* C10: scanResults changes only in the step that resumes handleGetQRCode
\* after a resolved invocation; handleCourseSelect with an id that is not in
\* courses changes no state and invokes nothing; the step after a rejected
\* invocation leaves scanResults as it was and reports one error message.
C10_ScanResultsFrame ==
    [][ /\ (scanResults' # scanResults) =>
              (qrPc = "resolved" /\ qrPc' = "idle" /\ scanResults' = qrSettled.value)
        /\ (lastCall'.op = "handleCourseSelect" /\ ~FindCourse(courses, lastCall'.arg))
              => PageStateUnchanged
        /\ (qrPc = "rejected" /\ qrPc' = "idle") =>
              /\ scanResults' = scanResults
              /\ Len(errorLog') = Len(errorLog) + 1
      ]_vars

C10_Witness ==
    /\ lastCall.op = "handleGetQRCode.catch"
    /\ scanResults # <<>>
    /\ errorLog # <<>>
====
